---- MODULE Spec2Model ----
(***************************************************************************)
(* The image data model of the image-refactoring proposal: the pixel       *)
(* format types RGBA8 / RGB8 / R8, the non-owning strided view View2d<T>,   *)
(* the owning array Array2d<T> and the variant container Image.            *)
(*                                                                         *)
(* Memory is byte addressed.  A pointer is a buffer name and a byte offset *)
(* in it; a buffer is the storage obtained by one `new T[n]`.  A pixel is  *)
(* the sequence of its bytes in declaration order (r, g, b, a).            *)
(***************************************************************************)
EXTENDS Integers, Sequences, FiniteSets, TLC

\* ------------------------------------------------------------------ bounds

\* Largest width and height a client passes to a constructor or a factory.
MaxDim == 2

\* Elements the client's arrays hold in total (the sum of width * height).
MaxElems == 2

\* Element writes a client makes through a derived view in one behaviour.
MaxWrites == 1

\* Largest row stride, in bytes, a client passes to View2d's constructor.
MaxStride == 9

\* ------------------------------------------------------- 32-bit arithmetic

\* u32 is `unsigned int`: 32 bits, handled here as two 16-bit halves so that
\* no intermediate product leaves the range of the model checker's integers.
Half == 65536

\* a * b in u32 arithmetic (mod 2^32), for a, b < 2^31.
MulU32(a, b) ==
    LET al == a % Half
        ah == a \div Half
        bl == b % Half
        bh == b \div Half
        b0 == bl % 256
        b1 == bl \div 256
        p1 == al * b1
        loRaw == al * b0 + (p1 % 256) * 256
        hiRaw == (p1 \div 256) + (loRaw \div Half)
                 + ((ah * bl) % Half) + ((al * bh) % Half)
    IN  (hiRaw % Half) * Half + (loRaw % Half)

\* a + b in u32 arithmetic (mod 2^32), for a, b < 2^31.
AddU32(a, b) ==
    LET loRaw == (a % Half) + (b % Half)
        hiRaw == (a \div Half) + (b \div Half) + (loRaw \div Half)
    IN  (hiRaw % Half) * Half + (loRaw % Half)

\* ---------------------------------------------------------- pixel formats

Formats == {"RGBA8", "RGB8", "R8"}

\* sizeof(T): the structs hold only u8 members, so there is no padding.
SizeOf(T) == CASE T = "RGBA8" -> 4 [] T = "RGB8" -> 3 [] T = "R8" -> 1

\* SColor: the packed 32-bit word, kept as its two 16-bit halves.
\* color = (a << 24) | (r << 16) | (g << 8) | b
SColor(a, r, g, b) == [hi |-> a * 256 + r, lo |-> g * 256 + b]

\* (color >> 24) & 0xFF
getAlpha(c) == (c.hi \div 256) % 256
\* (color >> 16) & 0xFF
getRed(c) == c.hi % 256
\* (color >> 8) & 0xFF
getGreen(c) == (c.lo \div 256) % 256
\* color & 0xFF
getBlue(c) == c.lo % 256

\* A pixel value is its bytes in member order.
RGBA8(r, g, b, a) == <<r, g, b, a>>
RGB8(r, g, b) == <<r, g, b>>
R8(r) == <<r>>

\* Faulty variants of the conversions below: a toSColor that takes the
\* channels in the order b, g, r, and one that packs an alpha of 0.
RGBA8toSColorSwapped(p) == SColor(p[4], p[3], p[2], p[1])
RGB8toSColorTransparent(p) == SColor(0, p[1], p[2], p[3])

RGBA8fromSColor(c) == RGBA8(getRed(c), getGreen(c), getBlue(c), getAlpha(c))
RGBA8toSColor(p) == SColor(p[4], p[1], p[2], p[3])
RGB8fromSColor(c) == RGB8(getRed(c), getGreen(c), getBlue(c))
RGB8toSColor(p) == SColor(255, p[1], p[2], p[3])

\* ----------------------------------------------------------------- memory

\* The null pointer, and a pointer into a buffer.
Null == [buf |-> "null", off |-> 0]
Ptr(b, o) == [buf |-> b, off |-> o]

\* pointer + n bytes (reinterpret_cast<u8 *>(p) + n)
PtrAdd(p, n) == IF p = Null /\ n = 0 THEN Null ELSE [buf |-> p.buf, off |-> p.off + n]

\* The storage `new T[n]` returns: n * sizeof(T) bytes of indeterminate
\* value; j is the value the allocator happened to leave in them.
NewBuffer(T, n, j) ==
    [live |-> TRUE, elems |-> n, bytes |-> [i \in 1..(n * SizeOf(T)) |-> j],
     releases |-> 0]

\* Whether the `size` bytes at p lie in live storage of heap h.
Inside(h, p, size) ==
    /\ p.buf \in DOMAIN h
    /\ h[p.buf].live
    /\ p.off + size <= Len(h[p.buf].bytes)

\* The `size` bytes at p.
Load(h, p, size) == SubSeq(h[p.buf].bytes, p.off + 1, p.off + size)

\* Heap h after the bytes of pixel value v are stored at p.
Store(h, p, v) ==
    [h EXCEPT ![p.buf].bytes =
        [i \in DOMAIN h[p.buf].bytes |->
            IF i > p.off /\ i <= p.off + Len(v) THEN v[i - p.off]
            ELSE h[p.buf].bytes[i]]]

\* ------------------------------------------------------- faulty variants

\* Variants of the operations below, each with one fault.  The properties at
\* the end of the module tell every one of them from the code.

\* A constructor that takes the height for the width in the default stride.
View2dCtorStrideOfHeight(T, data, width, height, y_stride) ==
    [T |-> T, data |-> data, width |-> width, height |-> height, x_stride |-> SizeOf(T),
     y_stride |-> IF y_stride > 0 THEN y_stride ELSE MulU32(height, SizeOf(T))]

\* A drop that narrows the view and leaves its base where it was.
DropKeepsBase(v, left, top) ==
    [T |-> v.T, data |-> v.data, width |-> v.width - left, height |-> v.height - top,
     x_stride |-> v.x_stride, y_stride |-> v.y_stride]

\* A drop that advances the base and forgets to shorten the view.
DropKeepsHeight(v, left, top) ==
    [T |-> v.T,
     data |-> PtrAdd(v.data, AddU32(MulU32(top, v.y_stride), MulU32(left, v.x_stride))),
     width |-> v.width - left, height |-> v.height,
     x_stride |-> v.x_stride, y_stride |-> v.y_stride]

\* A take that lets the constructor compute a tight stride for the result.
TakeTightStride(v, width, height) ==
    [T |-> v.T, data |-> v.data, width |-> width, height |-> height,
     x_stride |-> v.x_stride, y_stride |-> MulU32(width, v.x_stride)]

\* A slice that takes first and drops afterwards.
SliceTakeThenDrop(v, x, y, width, height) ==
    [T |-> v.T,
     data |-> PtrAdd(v.data, AddU32(MulU32(y, v.y_stride), MulU32(x, v.x_stride))),
     width |-> width - x, height |-> height - y,
     x_stride |-> v.x_stride, y_stride |-> v.y_stride]

\* A move that takes the buffer and not the view.
Array2dMovedNoView(other) ==
    [T |-> other.T, owned |-> other.owned, view |-> [T |-> other.T, data |-> Null, width |-> 0, height |-> 0,
              x_stride |-> SizeOf(other.T), y_stride |-> 0]]

\* A constructor whose assertion looks at the width and not at the height.
View2dCtorOkWidthOnly(data, width, height) == data # Null \/ width = 0

\* A move that leaves the source its pointer.
Array2dMovedFromKeepsPointer(other) ==
    [T |-> other.T, owned |-> other.owned, view |-> other.view]

\* An at() whose assertion lets the column one past the last through.
AtOkInclusive(v, x, y) == x <= v.width /\ y < v.height

\* A drop whose assertion looks at left and not at top.
DropOkLeftOnly(v, left, top) == left <= v.width

\* A getWidth that reports the height.
ImageGetWidthOfHeight(arr) == arr.view.height

\* A row() that takes the rows to be width elements apart.
RowPtrTight(v, y) == PtrAdd(v.data, MulU32(y, MulU32(v.width, v.x_stride)))

\* A drop that passes no stride on, so that the constructor computes a
\* tight one for what is left.
DropResetsStride(v, left, top) ==
    [T |-> v.T,
     data |-> PtrAdd(v.data, AddU32(MulU32(top, v.y_stride), MulU32(left, v.x_stride))),
     width |-> v.width - left, height |-> v.height - top,
     x_stride |-> v.x_stride, y_stride |-> MulU32(v.width - left, v.x_stride)]

\* A store through row(y)[x] that is one byte too wide.
WriteRowTooWide(h, v, x, y, value) ==
    LET p == PtrAdd(PtrAdd(v.data, MulU32(y, v.y_stride)), x * SizeOf(v.T))
        wide == IF p.buf \in DOMAIN h /\ p.off + Len(value) < Len(h[p.buf].bytes)
                THEN value \o <<0>> ELSE value
    IN  IF ~(y < v.height) THEN <<h, [kind |-> "assert", val |-> "none"]>>
        ELSE IF ~Inside(h, p, SizeOf(v.T)) THEN <<h, [kind |-> "UB", val |-> "none"]>>
        ELSE <<Store(h, p, wide), [kind |-> "ok", val |-> "none"]>>

\* An isRGB8 that takes every format with colour channels for RGB8.
isRGB8AnyColour(arr) == arr.T # "R8"

\* A std::get that does not check which alternative is live.
GetAsUnchecked(arr, T) == arr.T \in Formats

\* ----------------------------------------------------------------- View2d

\* View2d<T>::View2d(data, width, height, y_stride): the object built.
View2dCtor(T, data, width, height, y_stride) ==
    [T |-> T, data |-> data, width |-> width, height |-> height,
     x_stride |-> SizeOf(T),
     y_stride |-> IF y_stride > 0 THEN y_stride ELSE MulU32(width, SizeOf(T))]

\* The constructor's assertion.
View2dCtorOk(data, width, height) == data # Null \/ (width = 0 /\ height = 0)

\* at(x, y): the assertion, and the address of the element.
AtOk(v, x, y) == x < v.width /\ y < v.height
AtPtr(v, x, y) ==
    PtrAdd(v.data, AddU32(MulU32(y, v.y_stride), MulU32(x, v.x_stride)))

\* row(y): the assertion, and the address of the row.
RowOk(v, y) == y < v.height
RowPtr(v, y) == PtrAdd(v.data, MulU32(y, v.y_stride))

\* drop(left, top): the view built, and the assertions on the way (its own
\* and the constructor's).
Drop(v, left, top) ==
    View2dCtor(v.T,
               PtrAdd(v.data, AddU32(MulU32(top, v.y_stride), MulU32(left, v.x_stride))),
               v.width - left, v.height - top, v.y_stride)
DropOk(v, left, top) ==
    /\ left <= v.width /\ top <= v.height
    /\ View2dCtorOk(Drop(v, left, top).data, v.width - left, v.height - top)

\* take(width, height)
Take(v, width, height) == View2dCtor(v.T, v.data, width, height, v.y_stride)
TakeOk(v, width, height) ==
    /\ width <= v.width /\ height <= v.height
    /\ View2dCtorOk(v.data, width, height)

\* slice(x, y, width, height) == drop(x, y).take(width, height)
SliceOk(v, x, y, width, height) ==
    DropOk(v, x, y) /\ TakeOk(Drop(v, x, y), width, height)

Slice(v, x, y, width, height) == Take(Drop(v, x, y), width, height)

\* ---------------------------------------------------------------- Array2d

\* A View2d no constructor call has produced yet (a slot not constructed).
NoView == View2dCtor("R8", Null, 0, 0, 0)

\* Array2d<T>(width, height), its storage being buffer b:
\* owned_data_(new T[width * height]), view_(owned_data_.get(), width, height)
Array2dCtor(T, width, height, b) ==
    [T |-> T, owned |-> Ptr(b, 0),
     view |-> View2dCtor(T, Ptr(b, 0), width, height, 0)]

\* Array2d(Array2d &&other) = default: the object built.  The unique_ptr
\* takes other's pointer; View2d has no move of its own and is copied.
Array2dMoved(other) ==
    [T |-> other.T, owned |-> other.owned, view |-> other.view]

\* ... and what is left of `other`: a null unique_ptr, the view as it was.
Array2dMovedFrom(other) ==
    [T |-> other.T, owned |-> Null, view |-> other.view]

\* Array2d::getWidth / getHeight / getView
Array2dGetWidth(arr) == arr.view.width
Array2dGetHeight(arr) == arr.view.height

\* ------------------------------------------------------------------ Image

\* holds_alternative<Array2d<T>>(data_): arr.T is the variant's index.
isRGBA8(arr) == arr.T = "RGBA8"

isRGB8(arr) == arr.T = "RGB8"
isR8(arr) == arr.T = "R8"
ImageIs(arr, T) ==
    CASE T = "RGBA8" -> isRGBA8(arr) [] T = "RGB8" -> isRGB8(arr) [] T = "R8" -> isR8(arr)

\* std::get<Array2d<T>>(data_): whether it returns (rather than throws).
GetAsOk(arr, T) == ImageIs(arr, T)

\* Image::getWidth / getHeight: std::visit over the live alternative.
ImageGetWidth(arr) == Array2dGetWidth(arr)
ImageGetHeight(arr) == Array2dGetHeight(arr)

\* The generic colors a client passes, and the pixel a client writes through
\* a typed view: the scenario's opaque red, and one with four distinct bytes.
Colors == {SColor(255, 255, 0, 0), SColor(4, 1, 2, 3)}
PixelOf(T) ==
    CASE T = "RGBA8" -> RGBA8(1, 2, 3, 4) [] T = "RGB8" -> RGB8(1, 2, 3) [] T = "R8" -> R8(9)

\* Values the bytes of fresh storage may hold.
Junk == {0, 170}

\* What an operation hands back: a value, a failed assertion (the process
\* aborts), a thrown std::bad_variant_access, or undefined behaviour.
Ok(val) == [kind |-> "ok", val |-> val]
AssertFailed == [kind |-> "assert", val |-> "none"]
BadVariantAccess == [kind |-> "bad_variant_access", val |-> "none"]
UB == [kind |-> "UB", val |-> "none"]

\* Image::fill from pixel (x, y) on: row by row, row_ptr[x] = value.  The
\* heap reached and what the loop handed back (UB once a store leaves live
\* storage).
RECURSIVE FillFrom(_, _, _, _, _)
FillFrom(h, v, value, x, y) ==
    IF y >= v.height THEN <<h, Ok("none")>>
    ELSE IF x >= v.width THEN FillFrom(h, v, value, 0, y + 1)
    ELSE LET p == PtrAdd(RowPtr(v, y), x * SizeOf(v.T))
         IN  IF ~Inside(h, p, SizeOf(v.T)) THEN <<h, UB>>
             ELSE FillFrom(Store(h, p, value), v, value, x + 1, y)

\* Faulty variants of Image::fill: one that stops after the first row, and
\* one that clears a buffer it finds filled with the colour already.
ImageFillFirstRow(h, arr, color) ==
    LET v == [arr.view EXCEPT !.height = IF @ > 1 THEN 1 ELSE @]
    IN  IF isRGBA8(arr) THEN FillFrom(h, v, RGBA8fromSColor(color), 0, 0)
        ELSE IF isRGB8(arr) THEN FillFrom(h, v, RGB8fromSColor(color), 0, 0)
        ELSE <<h, Ok("none")>>
ImageFillToggle(h, arr, color) ==
    LET value == IF isRGBA8(arr) THEN RGBA8fromSColor(color) ELSE RGB8fromSColor(color)
        zero == [i \in 1..Len(value) |-> 0]
        filled == /\ arr.view.width > 0 /\ arr.view.height > 0
                  /\ Inside(h, arr.view.data, Len(value))
                  /\ Load(h, arr.view.data, Len(value)) = value
    IN  IF isR8(arr) THEN <<h, Ok("none")>>
        ELSE FillFrom(h, arr.view, IF filled THEN zero ELSE value, 0, 0)

\* Image::fill(color): heap and result.
ImageFill(h, arr, color) ==
    IF isRGBA8(arr) THEN FillFrom(h, arr.view, RGBA8fromSColor(color), 0, 0)
    ELSE IF isRGB8(arr) THEN FillFrom(h, arr.view, RGB8fromSColor(color), 0, 0)
    ELSE <<h, Ok("none")>>

\* View2d::at(x, y) read: the element, after the assertion.
ReadAt(h, v, x, y) ==
    IF ~AtOk(v, x, y) THEN AssertFailed
    ELSE IF ~Inside(h, AtPtr(v, x, y), SizeOf(v.T)) THEN UB
    ELSE Ok(Load(h, AtPtr(v, x, y), SizeOf(v.T)))

\* A faulty getPixel: one that reads a single-channel pixel as a grey.
ImageGetPixelLuminance(h, arr, x, y) ==
    LET r == ReadAt(h, arr.view, x, y)
    IN  IF r.kind # "ok" THEN r
        ELSE IF isRGBA8(arr) THEN Ok(RGBA8toSColor(r.val))
        ELSE IF isRGB8(arr) THEN Ok(RGB8toSColor(r.val))
        ELSE Ok(SColor(255, r.val[1], r.val[1], r.val[1]))

\* Image::getPixel(x, y)
ImageGetPixel(h, arr, x, y) ==
    IF isRGBA8(arr) THEN
        LET r == ReadAt(h, arr.view, x, y)
        IN  IF r.kind = "ok" THEN Ok(RGBA8toSColor(r.val)) ELSE r
    ELSE IF isRGB8(arr) THEN
        LET r == ReadAt(h, arr.view, x, y)
        IN  IF r.kind = "ok" THEN Ok(RGB8toSColor(r.val)) ELSE r
    ELSE Ok(SColor(0, 0, 0, 0))

\* View2d::at(x, y) = value: heap and result, after the assertion.
WriteAt(h, v, x, y, value) ==
    IF ~AtOk(v, x, y) THEN <<h, AssertFailed>>
    ELSE IF ~Inside(h, AtPtr(v, x, y), SizeOf(v.T)) THEN <<h, UB>>
    ELSE <<Store(h, AtPtr(v, x, y), value), Ok("none")>>

\* A faulty setPixel: one that stores every colour as opaque.
ImageSetPixelOpaque(h, arr, x, y, color) ==
    LET c == SColor(255, getRed(color), getGreen(color), getBlue(color))
    IN  IF isRGBA8(arr) THEN WriteAt(h, arr.view, x, y, RGBA8fromSColor(c))
        ELSE IF isRGB8(arr) THEN WriteAt(h, arr.view, x, y, RGB8fromSColor(c))
        ELSE <<h, Ok("none")>>

\* View2d::row(y)[x] read: the assertion looks at y alone.
ReadRow(h, v, x, y) ==
    IF ~RowOk(v, y) THEN AssertFailed
    ELSE IF ~Inside(h, PtrAdd(RowPtr(v, y), x * SizeOf(v.T)), SizeOf(v.T)) THEN UB
    ELSE Ok(Load(h, PtrAdd(RowPtr(v, y), x * SizeOf(v.T)), SizeOf(v.T)))

\* View2d::row(y)[x] = value: heap and result.
WriteRow(h, v, x, y, value) ==
    IF ~RowOk(v, y) THEN <<h, AssertFailed>>
    ELSE IF ~Inside(h, PtrAdd(RowPtr(v, y), x * SizeOf(v.T)), SizeOf(v.T)) THEN <<h, UB>>
    ELSE <<Store(h, PtrAdd(RowPtr(v, y), x * SizeOf(v.T)), value), Ok("none")>>

\* Image::setPixel(x, y, color): heap and result.
ImageSetPixel(h, arr, x, y, color) ==
    IF isRGBA8(arr) THEN WriteAt(h, arr.view, x, y, RGBA8fromSColor(color))
    ELSE IF isRGB8(arr) THEN WriteAt(h, arr.view, x, y, RGB8fromSColor(color))
    ELSE <<h, Ok("none")>>

\* ------------------------------------------------------------------ state

\* The client's variables that hold an Array2d or an Image.  The buffer an
\* object's constructor allocates is named after the variable.
Slots == {"a", "b"}
Dims == 0..MaxDim

VARIABLES
    objs,    \* per slot: lifetime state, class, and the Array2d it is or holds
    heap,    \* per allocated buffer: live or released, and its bytes
    last,    \* the call in progress: name, arguments, what it handed back
    V,       \* a view the client holds
    sub,     \* the view last derived from V, and its offset in V
    writes,  \* element writes made through sub
    pc       \* per concurrent writer: its view, its value, where its loop is

vars == <<objs, heap, last, V, sub, writes, pc>>

Unborn == [state |-> "unborn", class |-> "none", arr |-> [T |-> "R8", owned |-> Null, view |-> NoView]]
Dead == [Unborn EXCEPT !.state = "dead"]
Alive(class, arr) == [state |-> "alive", class |-> class, arr |-> arr]

NoSub == [view |-> NoView, left |-> 0, top |-> 0]

Last(op, args, res) == [op |-> op, args |-> args, res |-> res]

\* No call is in progress: the client is free to make the next one.
Idle == Last("idle", <<>>, Ok("none"))
Running == last = Idle

IsAlive(s) == objs[s].state = "alive"

\* The coordinates a client passes to a view: those of its elements, and
\* those one past its last column or row.
Coords(v) == (0..v.width) \X (0..v.height)

\* delete[] of what unique_ptr p holds (nothing for a null pointer).
Release(h, p) ==
    IF p = Null THEN h
    ELSE [h EXCEPT ![p.buf] = [live |-> FALSE, elems |-> 0, bytes |-> <<>>,
                               releases |-> h[p.buf].releases + 1]]

\* A call returns: `last` holds it, and the state is what the call made of
\* it.  A failed assertion aborts the process, and after undefined behaviour
\* nothing is known of it: no object and no storage is left either way.
Return(op, args, res, objs2, heap2, V2, sub2, writes2) ==
    /\ last' = Last(op, args, res)
    /\ pc' = pc
    /\ IF res.kind \in {"assert", "UB"}
       THEN /\ objs' = [s \in Slots |-> Unborn]
            /\ heap' = <<>>
            /\ V' = NoView /\ sub' = NoSub /\ writes' = 0
       ELSE /\ objs' = objs2
            /\ heap' = heap2
            /\ V' = V2 /\ sub' = sub2 /\ writes' = writes2

\* A call on the client's objects.
ReturnObj(op, args, res, objs2, heap2) ==
    Return(op, args, res, objs2, heap2, V, sub, writes)

Init ==
    /\ objs = [s \in Slots |-> Unborn]
    /\ heap = <<>>
    /\ last = Idle
    /\ V = NoView
    /\ sub = NoSub
    /\ writes = 0
    /\ pc = <<>>

\* The elements the live buffers hold.
RECURSIVE Elems(_, _)
Elems(h, bs) ==
    IF bs = {} THEN 0
    ELSE LET b == CHOOSE x \in bs : TRUE
         IN  (IF h[b].live THEN h[b].elems ELSE 0) + Elems(h, bs \ {b})

\* The client's variables are of one type: all Array2d<T>, or all Image.
SameType(s, class, T) ==
    \A o \in Slots \ {s} :
        objs[o].state # "alive" \/
            (objs[o].class = class /\ (class = "Array2d" => objs[o].arr.T = T))

\* The client's variables are declared in order: b after a.
Declarable(s) ==
    /\ objs[s].state = "unborn"
    /\ s = "b" => objs["a"].state # "unborn"

CanConstruct(s, class, T, width, height) ==
    /\ Running /\ Declarable(s)
    /\ SameType(s, class, T)
    /\ Elems(heap, DOMAIN heap) + MulU32(width, height) <= MaxElems

\* Array2d<T> s(width, height);
NewArray2d(s, T, width, height, j) ==
    /\ CanConstruct(s, "Array2d", T, width, height)
    /\ ReturnObj("Array2d", [slot |-> s, T |-> T, width |-> width, height |-> height],
                 IF View2dCtorOk(Ptr(s, 0), width, height) THEN Ok("none") ELSE AssertFailed,
                 [objs EXCEPT ![s] = Alive("Array2d", Array2dCtor(T, width, height, s))],
                 (s :> NewBuffer(T, MulU32(width, height), j)) @@ heap)

\* Image s = Image::createRGBA8 / createRGB8 / createR8(width, height);
\* the Array2d temporary is moved into the variant and on into the Image.
ImageCreate(s, T, width, height, j) ==
    /\ CanConstruct(s, "Image", T, width, height)
    /\ ReturnObj("create", [slot |-> s, T |-> T, width |-> width, height |-> height],
                 IF View2dCtorOk(Ptr(s, 0), width, height) THEN Ok("none") ELSE AssertFailed,
                 [objs EXCEPT ![s] =
                    Alive("Image", Array2dMoved(Array2dMoved(Array2dCtor(T, width, height, s))))],
                 (s :> NewBuffer(T, MulU32(width, height), j)) @@ heap)

\* X d(std::move(s)); for X = Array2d<T> or Image
MoveConstruct(d, s) ==
    /\ Running /\ Declarable(d) /\ IsAlive(s)
    /\ ReturnObj("moveCtor", [dst |-> d, src |-> s], Ok("none"),
                 [objs EXCEPT ![d] = Alive(objs[s].class, Array2dMoved(objs[s].arr)),
                              ![s].arr = Array2dMovedFrom(objs[s].arr)],
                 heap)

\* d = std::move(s); two Array2d<T> of one T, or two Images of any formats.
\* unique_ptr: reset(other.release()); View2d: copied.  An Image whose live
\* alternative differs destroys its own and move-constructs the other's.
MoveAssign(d, s) ==
    /\ Running /\ IsAlive(d) /\ IsAlive(s)
    /\ ReturnObj("moveAssign", [dst |-> d, src |-> s], Ok("none"),
                 IF d = s THEN objs
                 ELSE [objs EXCEPT ![d].arr = Array2dMoved(objs[s].arr),
                                   ![s].arr = Array2dMovedFrom(objs[s].arr)],
                 IF d = s THEN heap ELSE Release(heap, objs[d].arr.owned))

\* ~Array2d / ~Image: the unique_ptr releases what it owns.
Destroy(s) ==
    /\ Running /\ IsAlive(s)
    /\ ReturnObj("destroy", [slot |-> s], Ok("none"),
                 [objs EXCEPT ![s] = Dead], Release(heap, objs[s].arr.owned))

\* s.getWidth(), s.getHeight()
GetSize(s) ==
    /\ Running /\ IsAlive(s)
    /\ ReturnObj("getSize", [slot |-> s],
                 Ok(<<ImageGetWidth(objs[s].arr), ImageGetHeight(objs[s].arr)>>),
                 objs, heap)

\* s.isRGBA8() / s.isRGB8() / s.isR8()
Is(s, T) ==
    /\ Running /\ IsAlive(s) /\ objs[s].class = "Image"
    /\ ReturnObj("is", [slot |-> s, T |-> T], Ok(ImageIs(objs[s].arr, T)), objs, heap)

\* s.getAsRGBA8() / s.getAsRGB8() / s.getAsR8()
GetAs(s, T) ==
    /\ Running /\ IsAlive(s) /\ objs[s].class = "Image"
    /\ ReturnObj("getAs", [slot |-> s, T |-> T],
                 IF GetAsOk(objs[s].arr, T) THEN Ok(objs[s].arr.view) ELSE BadVariantAccess,
                 objs, heap)

\* s.fill(color)
Fill(s, color) ==
    /\ Running /\ IsAlive(s) /\ objs[s].class = "Image"
    /\ LET r == ImageFill(heap, objs[s].arr, color)
       IN  ReturnObj("fill", [slot |-> s, color |-> color], r[2], objs, r[1])

\* s.getPixel(x, y)
GetPixel(s, x, y) ==
    /\ Running /\ IsAlive(s) /\ objs[s].class = "Image"
    /\ ReturnObj("getPixel", [slot |-> s, x |-> x, y |-> y],
                 ImageGetPixel(heap, objs[s].arr, x, y), objs, heap)

\* s.setPixel(x, y, color)
SetPixel(s, x, y, color) ==
    /\ Running /\ IsAlive(s) /\ objs[s].class = "Image"
    /\ LET r == ImageSetPixel(heap, objs[s].arr, x, y, color)
       IN  ReturnObj("setPixel", [slot |-> s, x |-> x, y |-> y, color |-> color],
                     r[2], objs, r[1])

\* s.at(x, y) = PixelOf(T) for an Array2d<T>; s.getAsT().at(x, y) = ... for
\* an Image whose live format is T.
SetAt(s, x, y) ==
    /\ Running /\ IsAlive(s)
    /\ LET r == WriteAt(heap, objs[s].arr.view, x, y, PixelOf(objs[s].arr.T))
       IN  ReturnObj("at=", [slot |-> s, x |-> x, y |-> y], r[2], objs, r[1])

\* s.at(x, y) read, as above.
GetAt(s, x, y) ==
    /\ Running /\ IsAlive(s)
    /\ ReturnObj("at", [slot |-> s, x |-> x, y |-> y],
                 ReadAt(heap, objs[s].arr.view, x, y), objs, heap)

\* The client takes what the call handed back and goes on; after a failed
\* assertion or undefined behaviour there is no going on.
Continue ==
    /\ last # Idle /\ last.res.kind \notin {"assert", "UB"}
    /\ last' = Idle
    /\ UNCHANGED <<objs, heap, V, sub, writes, pc>>

\* The slots a call can be made on: none while a call is being reported.
Receivers == IF Running THEN Slots ELSE {}

Next ==
    \/ \E s \in Receivers, T \in Formats, width \in Dims, height \in Dims, j \in Junk :
          NewArray2d(s, T, width, height, j)
    \/ \E s \in Receivers, T \in Formats, width \in Dims, height \in Dims, j \in Junk :
          ImageCreate(s, T, width, height, j)
    \/ \E d \in Receivers, s \in Slots : MoveConstruct(d, s)
    \/ \E d \in Receivers, s \in Slots : MoveAssign(d, s)
    \/ \E s \in Receivers : Destroy(s)
    \/ \E s \in Receivers : GetSize(s)
    \/ \E s \in Receivers, T \in Formats : Is(s, T)
    \/ \E s \in Receivers, T \in Formats : GetAs(s, T)
    \/ \E s \in Receivers, color \in Colors : Fill(s, color)
    \/ \E s \in Receivers : \E xy \in Coords(objs[s].arr.view) : GetPixel(s, xy[1], xy[2])
    \/ \E s \in Receivers, color \in Colors :
          \E xy \in Coords(objs[s].arr.view) : SetPixel(s, xy[1], xy[2], color)
    \/ \E s \in Receivers : \E xy \in Coords(objs[s].arr.view) : SetAt(s, xy[1], xy[2])
    \/ \E s \in Receivers : \E xy \in Coords(objs[s].arr.view) : GetAt(s, xy[1], xy[2])
    \/ Continue

Spec == Init /\ [][Next]_vars

\* ------------------------------------------------- the client of one view

\* The arguments a client passes where up to n columns or rows are there to
\* be had: 0 .. n, and one too many (0 alone where n is below 0 already).
Args(n) == 0..(n + 1)

\* The client derives its views first and writes through them afterwards:
\* what drop, take and slice hand back does not depend on what the buffer
\* holds.
Deriving == Running /\ writes = 0

\* The client holds the view of an Array2d<T> a(width, height), or an empty
\* view of no storage, View2d<T>(nullptr, 0, 0).
InitView ==
    /\ \E T \in Formats, width \in Dims, height \in Dims, j \in Junk :
          /\ objs = [s \in Slots |->
                        IF s = "a" THEN Alive("Array2d", Array2dCtor(T, width, height, "a"))
                        ELSE Unborn]
          /\ heap = ("a" :> NewBuffer(T, MulU32(width, height), j))
          /\ V \in {objs["a"].arr.view, View2dCtor(T, Null, 0, 0, 0)}
    /\ sub = [view |-> V, left |-> 0, top |-> 0]
    /\ last = Idle
    /\ writes = 0
    /\ pc = <<>>

\* A faulty variant of the call below: one that narrows the client's view
\* in place as well as handing the narrowed view back.
ReturnViewInPlace(op, args, res, sub2) ==
    Return(op, args, res, objs, heap, sub2.view, sub2, writes)

\* A call on the client's view.
ReturnView(op, args, res, sub2) ==
    Return(op, args, res, objs, heap, V, sub2, writes)

\* sub = V.drop(left, top);
ViewDrop(left, top) ==
    /\ Deriving
    /\ ReturnView("drop", [self |-> V, left |-> left, top |-> top],
                  IF DropOk(V, left, top) THEN Ok("none") ELSE AssertFailed,
                  IF DropOk(V, left, top)
                  THEN [view |-> Drop(V, left, top), left |-> left, top |-> top]
                  ELSE sub)

\* sub = V.take(width, height);
ViewTake(width, height) ==
    /\ Deriving
    /\ ReturnView("take", [self |-> V, width |-> width, height |-> height],
                  IF TakeOk(V, width, height) THEN Ok("none") ELSE AssertFailed,
                  IF TakeOk(V, width, height)
                  THEN [view |-> Take(V, width, height), left |-> 0, top |-> 0]
                  ELSE sub)

\* sub = V.slice(x, y, width, height);
ViewSlice(x, y, width, height) ==
    /\ Deriving
    /\ ReturnView("slice", [self |-> V, x |-> x, y |-> y, width |-> width, height |-> height],
                  IF SliceOk(V, x, y, width, height) THEN Ok("none") ELSE AssertFailed,
                  IF SliceOk(V, x, y, width, height)
                  THEN [view |-> Slice(V, x, y, width, height), left |-> x, top |-> y]
                  ELSE sub)

\* V = sub; the client goes on from the derived view.
ViewAdopt ==
    /\ Deriving /\ sub.view # V
    /\ Return("adopt", <<>>, Ok("none"), objs, heap,
              sub.view, [view |-> sub.view, left |-> 0, top |-> 0], writes)

\* sub.at(i, j) = PixelOf(T);
ViewSetAt(i, j) ==
    /\ Running /\ writes < MaxWrites
    /\ LET r == WriteAt(heap, sub.view, i, j, PixelOf(sub.view.T))
       IN  Return("at=", [self |-> sub.view, x |-> i, y |-> j], r[2],
                  objs, r[1], V, sub, writes + 1)

\* sub.at(i, j) read.
ViewGetAt(i, j) ==
    /\ Running
    /\ Return("at", [self |-> sub.view, x |-> i, y |-> j],
              ReadAt(heap, sub.view, i, j), objs, heap, V, sub, writes)

\* sub.row(y)
ViewRow(y) ==
    /\ Running
    /\ Return("row", [self |-> sub.view, y |-> y],
              IF RowOk(sub.view, y) THEN Ok(RowPtr(sub.view, y)) ELSE AssertFailed,
              objs, heap, V, sub, writes)

\* The rows a client asks for, the one past the last included, and the
\* columns it indexes them by.
RowCoords(v) == {xy \in Coords(v) : xy[1] < v.width}

\* sub.row(j)[i] = PixelOf(T);
ViewRowSetAt(i, j) ==
    /\ Running /\ writes < MaxWrites
    /\ LET r == WriteRow(heap, sub.view, i, j, PixelOf(sub.view.T))
       IN  Return("row[]=", [self |-> sub.view, x |-> i, y |-> j], r[2],
                  objs, r[1], V, sub, writes + 1)

\* sub.row(j)[i] read.
ViewRowGetAt(i, j) ==
    /\ Running
    /\ Return("row[]", [self |-> sub.view, x |-> i, y |-> j],
              ReadRow(heap, sub.view, i, j), objs, heap, V, sub, writes)

\* The arguments a client can pass: none while a call is being reported.
Given(S) == IF Running THEN S ELSE {}

NextView ==
    \/ \E left \in Given(Args(V.width)), top \in Given(Args(V.height)) :
          ViewDrop(left, top)
    \/ \E width \in Given(Args(V.width)), height \in Given(Args(V.height)) :
          ViewTake(width, height)
    \/ \E x \in Given(Args(V.width)), y \in Given(Args(V.height)) :
          \E width \in Args(V.width - x), height \in Args(V.height - y) :
             ViewSlice(x, y, width, height)
    \/ ViewAdopt
    \/ \E xy \in Given(Coords(sub.view)) : ViewSetAt(xy[1], xy[2])
    \/ \E xy \in Given(Coords(sub.view)) : ViewGetAt(xy[1], xy[2])
    \/ \E y \in Given(0..sub.view.height) : ViewRow(y)
    \/ \E xy \in Given(RowCoords(sub.view)) : ViewRowSetAt(xy[1], xy[2])
    \/ \E xy \in Given(RowCoords(sub.view)) : ViewRowGetAt(xy[1], xy[2])
    \/ Continue

SpecView == InitView /\ [][NextView]_vars

\* ------------------------------------------ the client of the constructor

\* The row strides a client passes: 0 for the default, and explicit ones.
Strides == 0..MaxStride

\* The client holds an Array2d<T> a(MaxDim, MaxDim) and its view.
InitCtor ==
    /\ \E T \in Formats, j \in Junk :
          /\ objs = [s \in Slots |->
                        IF s = "a" THEN Alive("Array2d", Array2dCtor(T, MaxDim, MaxDim, "a"))
                        ELSE Unborn]
          /\ heap = ("a" :> NewBuffer(T, MulU32(MaxDim, MaxDim), j))
    /\ V = objs["a"].arr.view
    /\ sub = [view |-> V, left |-> 0, top |-> 0]
    /\ last = Idle
    /\ writes = 0
    /\ pc = <<>>

\* V = View2d<T>(base, width, height, y_stride); base being a.getData() or
\* nullptr.  The client builds one view of its own.
ViewNew(base, width, height, y_stride) ==
    /\ Running /\ IsAlive("a") /\ V = objs["a"].arr.view
    /\ LET T == objs["a"].arr.T
           new == View2dCtor(T, base, width, height, y_stride)
       IN  Return("View2d",
                  [base |-> base, width |-> width, height |-> height, y_stride |-> y_stride],
                  IF View2dCtorOk(base, width, height) THEN Ok("none") ELSE AssertFailed,
                  objs, heap, new, [view |-> new, left |-> 0, top |-> 0], writes)

NextCtor ==
    \/ \E base \in Given({Null, objs["a"].arr.view.data}), width \in Dims, height \in Dims,
          y_stride \in Strides : ViewNew(base, width, height, y_stride)
    \/ \E left \in Given(Args(V.width)), top \in Given(Args(V.height)) :
          ViewDrop(left, top)
    \/ \E width \in Given(Args(V.width)), height \in Given(Args(V.height)) :
          ViewTake(width, height)
    \/ Continue

SpecCtor == InitCtor /\ [][NextCtor]_vars

\* --------------------------------------------------- the client of wide arrays

\* The widths and heights a client passes: the small ones and 2^16, whose
\* square does not fit 32 bits.
WideDims == Dims \cup {Half}

\* The columns and the rows a client picks of a view n wide or high.
Columns(n) == {k \in {0, 1, 2, Half - 1} : k <= n}
Rows(n) == {k \in {0, 1, 2} : k <= n}

\* The client holds one Array2d<T> a(width, height) and accesses elements
\* of it.
Wide == IF Running THEN {"a"} ELSE {}

NextWide ==
    \/ \E s \in Wide, T \in Formats, width \in WideDims, height \in WideDims, j \in Junk :
          NewArray2d(s, T, width, height, j)
    \/ \E s \in Wide : GetSize(s)
    \/ \E s \in Wide : \E x \in Columns(objs[s].arr.view.width),
                          y \in Rows(objs[s].arr.view.height) : SetAt(s, x, y)
    \/ \E s \in Wide : \E x \in Columns(objs[s].arr.view.width),
                          y \in Rows(objs[s].arr.view.height) : GetAt(s, x, y)
    \/ Continue

SpecWide == Init /\ [][NextWide]_vars

\* ------------------------------------------------- two writers of one array

Writers == {1, 2}

\* The value writer i stores.
ValueOf(T, i) == IF i = 1 THEN PixelOf(T) ELSE [k \in 1..SizeOf(T) |-> 200 + k]

\* The rectangles (x, y, width, height) of view v that slice accepts and
\* that hold an element, and whether two of them have no element in common.
Rects(v) ==
    {r \in (0..v.width) \X (0..v.height) \X (1..v.width) \X (1..v.height) :
        SliceOk(v, r[1], r[2], r[3], r[4])}
Disjoint(r, q) ==
    \/ r[1] + r[3] <= q[1] \/ q[1] + q[3] <= r[1]
    \/ r[2] + r[4] <= q[2] \/ q[2] + q[4] <= r[2]

\* A writer's loop, as Image::fill has it:
\*   for (y = 0; y < height; ++y) { row_ptr = view.row(y);
\*      for (x = 0; x < width; ++x) row_ptr[x] = value; }
\* (x, y) is the element it stores next; the loop is over when there is none.
Writer(view, value) == [view |-> view, value |-> value, x |-> 0, y |-> 0]
Done(w) == w.view.width = 0 \/ w.y >= w.view.height
Advance(w) ==
    IF w.x + 1 < w.view.width THEN [w EXCEPT !.x = w.x + 1]
    ELSE [w EXCEPT !.x = 0, !.y = w.y + 1]

\* An Array2d<T> a(MaxDim, MaxDim), and two threads that each fill a slice
\* of its view, the two slices being disjoint.
InitFill ==
    /\ \E T \in Formats, j \in Junk :
          /\ objs = [s \in Slots |->
                        IF s = "a" THEN Alive("Array2d", Array2dCtor(T, MaxDim, MaxDim, "a"))
                        ELSE Unborn]
          /\ heap = ("a" :> NewBuffer(T, MulU32(MaxDim, MaxDim), j))
    /\ V = objs["a"].arr.view
    /\ sub = [view |-> V, left |-> 0, top |-> 0]
    /\ last = Idle
    /\ writes = 0
    /\ \E r \in Rects(V), q \in Rects(V) :
          /\ Disjoint(r, q)
          /\ pc = [i \in Writers |->
                     IF i = 1 THEN Writer(Slice(V, r[1], r[2], r[3], r[4]), ValueOf(V.T, 1))
                     ELSE Writer(Slice(V, q[1], q[2], q[3], q[4]), ValueOf(V.T, 2))]

\* Writer i stores one element: row_ptr[x] = value.
FillStep(i) ==
    /\ ~Done(pc[i])
    /\ LET w == pc[i]
           r == WriteRow(heap, w.view, w.x, w.y, w.value)
       IN  /\ r[2].kind = "ok"
           /\ heap' = r[1]
           /\ pc' = [pc EXCEPT ![i] = Advance(w)]
    /\ UNCHANGED <<objs, last, V, sub, writes>>

NextFill == \E i \in Writers : FillStep(i)

SpecFill == InitFill /\ [][NextFill]_vars

\* -------------------------------------------- the client of the conversions

\* The bytes a client passes for a channel, the packed colours built of
\* them, and the pixel values of a format built of them.
Bytes == {0, 1, 128, 255}
PackedColors == {SColor(a, r, g, b) : a \in Bytes, r \in Bytes, g \in Bytes, b \in Bytes}
PixelsOf(T) ==
    CASE T = "RGBA8" -> {RGBA8(r, g, b, a) : r \in Bytes, g \in Bytes, b \in Bytes, a \in Bytes}
      [] T = "RGB8" -> {RGB8(r, g, b) : r \in Bytes, g \in Bytes, b \in Bytes}
      [] T = "R8" -> {R8(r) : r \in Bytes}

\* The formats that convert to and from SColor.
ColorFormats == {"RGBA8", "RGB8"}

\* T::fromSColor(c)
FromSColor(T, c) ==
    /\ Running
    /\ ReturnObj("fromSColor", [T |-> T, c |-> c],
                 Ok(IF T = "RGBA8" THEN RGBA8fromSColor(c) ELSE RGB8fromSColor(c)),
                 objs, heap)

\* p.toSColor() for a pixel p of format T
ToSColor(T, p) ==
    /\ Running
    /\ ReturnObj("toSColor", [T |-> T, p |-> p],
                 Ok(IF T = "RGBA8" THEN RGBA8toSColor(p) ELSE RGB8toSColor(p)),
                 objs, heap)

NextColor ==
    \/ \E T \in ColorFormats, c \in PackedColors : FromSColor(T, c)
    \/ \E T \in ColorFormats : \E p \in PixelsOf(T) : ToSColor(T, p)
    \/ Continue

SpecColor == Init /\ [][NextColor]_vars

\* ------------------------------------------------ the client of one container

\* The client holds one Image, i, made by a factory, and works on its pixels:
\* through the generic operations, through the typed view of the live format
\* and through views derived from that one.
Container == IF Running THEN {"a"} ELSE {}

\* s.getAsT().drop(left, top), T being the live format
ImageDrop(s, left, top) ==
    /\ Running /\ IsAlive(s) /\ objs[s].class = "Image"
    /\ LET v == objs[s].arr.view
       IN  ReturnObj("drop", [slot |-> s, left |-> left, top |-> top],
                     IF DropOk(v, left, top) THEN Ok(Drop(v, left, top)) ELSE AssertFailed,
                     objs, heap)

\* s.getAsT().take(width, height)
ImageTake(s, width, height) ==
    /\ Running /\ IsAlive(s) /\ objs[s].class = "Image"
    /\ LET v == objs[s].arr.view
       IN  ReturnObj("take", [slot |-> s, width |-> width, height |-> height],
                     IF TakeOk(v, width, height) THEN Ok(Take(v, width, height))
                     ELSE AssertFailed,
                     objs, heap)

\* s.getAsT().slice(x, y, width, height)
ImageSlice(s, x, y, width, height) ==
    /\ Running /\ IsAlive(s) /\ objs[s].class = "Image"
    /\ LET v == objs[s].arr.view
       IN  ReturnObj("slice",
                     [slot |-> s, x |-> x, y |-> y, width |-> width, height |-> height],
                     IF SliceOk(v, x, y, width, height)
                     THEN Ok(Slice(v, x, y, width, height)) ELSE AssertFailed,
                     objs, heap)

\* s.getAsT().drop(left, top).at(0, 0) = PixelOf(T);
ImageDropSetAt(s, left, top) ==
    /\ Running /\ IsAlive(s) /\ objs[s].class = "Image"
    /\ LET v == objs[s].arr.view
           r == IF DropOk(v, left, top)
                THEN WriteAt(heap, Drop(v, left, top), 0, 0, PixelOf(v.T))
                ELSE <<heap, AssertFailed>>
       IN  ReturnObj("drop.at=", [slot |-> s, left |-> left, top |-> top],
                     r[2], objs, r[1])

NextImage ==
    \/ \E s \in Container, T \in Formats, width \in Dims, height \in Dims, j \in Junk :
          ImageCreate(s, T, width, height, j)
    \/ \E s \in Container : GetSize(s)
    \/ \E s \in Container, T \in Formats : Is(s, T)
    \/ \E s \in Container, T \in Formats : GetAs(s, T)
    \/ \E s \in Container, color \in Colors : Fill(s, color)
    \/ \E s \in Container : \E xy \in Coords(objs[s].arr.view) : GetPixel(s, xy[1], xy[2])
    \/ \E s \in Container, color \in Colors :
          \E xy \in Coords(objs[s].arr.view) : SetPixel(s, xy[1], xy[2], color)
    \/ \E s \in Container : \E xy \in Coords(objs[s].arr.view) : SetAt(s, xy[1], xy[2])
    \/ \E s \in Container : \E xy \in Coords(objs[s].arr.view) : GetAt(s, xy[1], xy[2])
    \/ \E s \in Container :
          \E left \in Args(objs[s].arr.view.width), top \in Args(objs[s].arr.view.height) :
             ImageDrop(s, left, top)
    \/ \E s \in Container :
          \E width \in Args(objs[s].arr.view.width),
             height \in Args(objs[s].arr.view.height) :
             ImageTake(s, width, height)
    \/ \E s \in Container :
          \E x \in Args(objs[s].arr.view.width), y \in Args(objs[s].arr.view.height) :
             \E width \in Args(objs[s].arr.view.width - x),
                height \in Args(objs[s].arr.view.height - y) :
                ImageSlice(s, x, y, width, height)
    \/ \E s \in Container :
          \E left \in Args(objs[s].arr.view.width), top \in Args(objs[s].arr.view.height) :
             ImageDropSetAt(s, left, top)
    \/ Continue

SpecImage == Init /\ [][NextImage]_vars

\* ------------------------------------------------------------- properties

\* What `last` tells of the call just made.
Called(op) == last.op = op /\ last.res.kind = "ok"

\* The in-bounds coordinates of a view.
Within(v) == {xy \in Coords(v) : xy[1] < v.width /\ xy[2] < v.height}

\* The step is the move (construction or assignment) of s into another
\* object d, s owning a buffer before it.
MoveStep(d, s) ==
    /\ d # s
    /\ last'.op \in {"moveCtor", "moveAssign"}
    /\ last'.args = [dst |-> d, src |-> s]
    /\ objs[s].arr.owned # Null

\* The bytes of buffer b after value is stored at byte offset p of it.
BytesWith(h, b, p, value) ==
    [k \in DOMAIN h[b].bytes |->
        IF k > p /\ k <= p + Len(value) THEN value[k - p] ELSE h[b].bytes[k]]

\* C1: a write to element (i, j) of V.drop(left, top).take(w, h) stores the
\* value in element (left + i, top + j) of V, at byte offset
\* (top + j) * stride + (left + i) * element-size from V's base, and leaves
\* every other byte of the buffer, every other element of V and every other
\* buffer as they were.
C1_SubViewWriteFrame ==
    [][(/\ last'.op = "at=" /\ last'.res.kind = "ok"
        /\ sub.view = Slice(V, sub.left, sub.top, sub.view.width, sub.view.height))
       => LET T == V.T
              x == sub.left + last'.args.x
              y == sub.top + last'.args.y
              b == V.data.buf
              p == V.data.off + y * V.y_stride + x * SizeOf(T)
          IN  /\ last'.args.x < sub.view.width /\ last'.args.y < sub.view.height
              /\ x < V.width /\ y < V.height
              /\ DOMAIN heap' = DOMAIN heap
              /\ \A c \in DOMAIN heap : c # b => heap'[c] = heap[c]
              /\ heap'[b].bytes = BytesWith(heap, b, p, PixelOf(T))
              /\ ReadAt(heap', V, x, y) = Ok(PixelOf(T))
              /\ \A xy \in Within(V) \ {<<x, y>>} :
                    ReadAt(heap', V, xy[1], xy[2]) = ReadAt(heap, V, xy[1], xy[2])
      ]_vars

\* Element (0, 1) of the 1 x 2 right column of a 2 x 2 view has been written.
C1_Witness ==
    /\ Called("at=") /\ last.args.x = 0 /\ last.args.y = 1
    /\ V.width = 2 /\ V.height = 2
    /\ sub.left = 1 /\ sub.top = 0 /\ sub.view.width = 1 /\ sub.view.height = 2
    /\ ReadAt(heap, V, 1, 1) = Ok(PixelOf(V.T))

\* C2: after an owning array is move-constructed or move-assigned into
\* another, the destination reports the source's width and height and every
\* element of it reads as the source's element read before the move.
C2_MovePreservesContents ==
    [][\A d \in Slots, s \in Slots :
          MoveStep(d, s) =>
             /\ last'.res.kind = "ok"
             /\ Array2dGetWidth(objs'[d].arr) = Array2dGetWidth(objs[s].arr)
             /\ Array2dGetHeight(objs'[d].arr) = Array2dGetHeight(objs[s].arr)
             /\ \A xy \in Within(objs[s].arr.view) :
                   /\ ReadAt(heap, objs[s].arr.view, xy[1], xy[2]).kind = "ok"
                   /\ ReadAt(heap', objs'[d].arr.view, xy[1], xy[2])
                         = ReadAt(heap, objs[s].arr.view, xy[1], xy[2])
      ]_vars

\* A 2 x 1 Array2d whose element (1, 0) was written has been move-assigned
\* over another array, which now owns its buffer.
C2_Witness ==
    /\ Called("moveAssign") /\ last.args.dst # last.args.src
    /\ objs[last.args.dst].class = "Array2d"
    /\ objs[last.args.dst].arr.owned = Ptr(last.args.src, 0)
    /\ objs[last.args.dst].arr.view.width = 2
    /\ objs[last.args.dst].arr.view.height = 1
    /\ ReadAt(heap, objs[last.args.dst].arr.view, 1, 0)
          = Ok(PixelOf(objs[last.args.dst].arr.T))
    /\ ReadAt(heap, objs[last.args.dst].arr.view, 0, 0)
          # Ok(PixelOf(objs[last.args.dst].arr.T))

\* C3: a move (construction or assignment) out of an owning array leaves the
\* source empty: it reports width 0 and height 0, and no element of the
\* transferred buffer can be reached through it.
C3_MovedFromIsEmpty ==
    [][\A d \in Slots, s \in Slots :
          MoveStep(d, s) =>
             /\ Array2dGetWidth(objs'[s].arr) = 0
             /\ Array2dGetHeight(objs'[s].arr) = 0
             /\ \A xy \in Coords(objs[s].arr.view) :
                   ReadAt(heap', objs'[s].arr.view, xy[1], xy[2]).kind # "ok"
      ]_vars

\* C4: a typed accessor of a format that is not the live one throws, hands
\* back no view and changes neither the container nor any buffer; the
\* accessor of the live format hands back a view of the container's width
\* and height.
C4_TypedAccessor ==
    [][\A s \in Slots, T \in Formats :
          (last'.op = "getAs" /\ last'.args = [slot |-> s, T |-> T]) =>
             IF ImageIs(objs[s].arr, T)
             THEN /\ last'.res.kind = "ok"
                  /\ last'.res.val.T = T
                  /\ last'.res.val.width = ImageGetWidth(objs[s].arr)
                  /\ last'.res.val.height = ImageGetHeight(objs[s].arr)
                  /\ objs' = objs /\ heap' = heap
             ELSE /\ last'.res.kind = "bad_variant_access"
                  /\ objs' = objs /\ heap' = heap
      ]_vars

\* getAsRGB8() has been called on a 1 x 2 container created as RGBA8.
C4_Witness ==
    /\ last.op = "getAs" /\ last.res.kind = "bad_variant_access" /\ last.args.T = "RGB8"
    /\ isRGBA8(objs[last.args.slot].arr)
    /\ objs[last.args.slot].arr.owned = Ptr(last.args.slot, 0)
    /\ ImageGetWidth(objs[last.args.slot].arr) = 1
    /\ ImageGetHeight(objs[last.args.slot].arr) = 2

\* C5: the live format of a container is fixed for its lifetime: no
\* operation on a container, move-assignment from another container
\* included, changes what isRGBA8 / isRGB8 / isR8 report.
C5_LiveVariantFixed ==
    [][\A s \in Slots :
          (IsAlive(s) /\ objs[s].class = "Image" /\ objs'[s].state = "alive") =>
             \A T \in Formats : ImageIs(objs'[s].arr, T) = ImageIs(objs[s].arr, T)
      ]_vars

\* C6: exactly one of isRGBA8(), isRGB8(), isR8() holds of every container,
\* and of a container just returned by createRGBA8 / createRGB8 / createR8
\* it is the one of that factory.
C6_ExactlyOneFormat ==
    /\ \A s \in Slots :
          (IsAlive(s) /\ objs[s].class = "Image") =>
             /\ Cardinality({T \in Formats : ImageIs(objs[s].arr, T)}) = 1
             /\ Cardinality({f \in {isRGBA8(objs[s].arr), isRGB8(objs[s].arr),
                                    isR8(objs[s].arr)} : f}) = 1
             /\ (isRGBA8(objs[s].arr) /\ isRGB8(objs[s].arr)) = FALSE
             /\ (isRGBA8(objs[s].arr) /\ isR8(objs[s].arr)) = FALSE
             /\ (isRGB8(objs[s].arr) /\ isR8(objs[s].arr)) = FALSE
    /\ last.op = "create" =>
          /\ last.res.kind = "ok"
          /\ \A T \in Formats : ImageIs(objs[last.args.slot].arr, T) = (T = last.args.T)
    /\ last.op = "is" =>
          last.res = Ok(ImageIs(objs[last.args.slot].arr, last.args.T))

\* createRGBA8(1, 1) has just returned a container.
C6_Witness ==
    /\ Called("create") /\ last.args.T = "RGBA8"
    /\ IsAlive(last.args.slot) /\ objs[last.args.slot].class = "Image"
    /\ ImageGetWidth(objs[last.args.slot].arr) = 1
    /\ ImageGetHeight(objs[last.args.slot].arr) = 1

\* C7: Array2d(width, height), zero width or height included, reports
\* getWidth() = width and getHeight() = height, and the row stride of its
\* view is width * element-size.
C7_Array2dCtor ==
    last.op = "Array2d" =>
       LET arr == objs[last.args.slot].arr
       IN  /\ last.res.kind = "ok"
           /\ IsAlive(last.args.slot)
           /\ Array2dGetWidth(arr) = last.args.width
           /\ Array2dGetHeight(arr) = last.args.height
           /\ arr.view.y_stride = last.args.width * SizeOf(last.args.T)
           /\ arr.view.x_stride = SizeOf(last.args.T)

\* Array2d<RGB8>(2, 1) has just been constructed.
C7_Witness ==
    /\ Called("Array2d") /\ last.args.T = "RGB8"
    /\ last.args.width = 2 /\ last.args.height = 1
    /\ objs[last.args.slot].arr.view.y_stride = 6

\* C8: V.drop(left, top) with left <= V.width and top <= V.height is a view
\* of width V.width - left, height V.height - top and V's row stride, its
\* base being V's advanced by top * stride + left * element-size;
\* V.drop(0, 0) has V's base, width, height and stride.
C8_Drop ==
    (last.op = "drop" /\ last.args.left <= last.args.self.width
                      /\ last.args.top <= last.args.self.height) =>
       LET self == last.args.self
           left == last.args.left
           top == last.args.top
       IN  /\ last.res.kind = "ok"
           /\ sub.view.width = self.width - left
           /\ sub.view.height = self.height - top
           /\ sub.view.y_stride = self.y_stride
           /\ sub.view.data.buf = self.data.buf
           /\ sub.view.data.off
                 = self.data.off + top * self.y_stride + left * SizeOf(self.T)
           /\ (left = 0 /\ top = 0) => sub.view = self

\* drop(1, 1) of a 2 x 2 view has handed back its last element.
C8_Witness ==
    /\ Called("drop") /\ last.args.left = 1 /\ last.args.top = 1
    /\ last.args.self.width = 2 /\ last.args.self.height = 2
    /\ sub.view.width = 1 /\ sub.view.height = 1
    /\ sub.view.data.off = last.args.self.y_stride + SizeOf(sub.view.T)

\* C9: V.take(w, h) with w <= V.width and h <= V.height is a view of width
\* w, height h, V's row stride and V's base; so it is of a view of width 0
\* and of a sub-view whose rows are padded.
C9_Take ==
    (last.op = "take" /\ last.args.width <= last.args.self.width
                      /\ last.args.height <= last.args.self.height) =>
       LET self == last.args.self
       IN  /\ last.res.kind = "ok"
           /\ sub.view.width = last.args.width
           /\ sub.view.height = last.args.height
           /\ sub.view.y_stride = self.y_stride
           /\ sub.view.data = self.data

\* take(0, 1) of a 1 x 2 view whose rows are two elements apart.
C9_Witness ==
    /\ Called("take") /\ last.args.width = 0 /\ last.args.height = 1
    /\ last.args.self.width = 1 /\ last.args.self.height = 2
    /\ last.args.self.y_stride = 2 * SizeOf(last.args.self.T)
    /\ sub.view.y_stride = last.args.self.y_stride

\* C10: V.slice(x, y, w, h) is accepted exactly when x <= V.width,
\* y <= V.height, w <= V.width - x and h <= V.height - y, and what it hands
\* back has the base, width, height and stride of V.drop(x, y).take(w, h).
C10_Slice ==
    last.op = "slice" =>
       LET self == last.args.self
           x == last.args.x
           y == last.args.y
           width == last.args.width
           height == last.args.height
           accepted == /\ x <= self.width /\ y <= self.height
                       /\ width <= self.width - x /\ height <= self.height - y
       IN  /\ last.res.kind = IF accepted THEN "ok" ELSE "assert"
           /\ accepted =>
                 /\ DropOk(self, x, y) /\ TakeOk(Drop(self, x, y), width, height)
                 /\ sub.view = Take(Drop(self, x, y), width, height)
                 /\ sub.view.width = width /\ sub.view.height = height
                 /\ sub.view.y_stride = self.y_stride
                 /\ sub.view.data.buf = self.data.buf
                 /\ sub.view.data.off
                       = self.data.off + y * self.y_stride + x * SizeOf(self.T)

\* slice(1, 0, 1, 1) of a 2 x 2 view has handed back a 1 x 1 view.
C10_Witness ==
    /\ Called("slice") /\ last.args.self.width = 2 /\ last.args.self.height = 2
    /\ last.args.x = 1 /\ last.args.y = 0
    /\ last.args.width = 1 /\ last.args.height = 1
    /\ sub.view.width = 1 /\ sub.view.data.off = last.args.self.data.off + SizeOf(sub.view.T)

\* The call `last` tells of is the conversion op of format T.
Converted(op, T) == Called(op) /\ last.args.T = T

\* C11: the RGBA8 conversion loses nothing either way.  toSColor packs
\* alpha << 24 | red << 16 | green << 8 | blue and fromSColor gives the pixel
\* back; fromSColor takes the four channels of a packed colour and toSColor
\* gives the colour back.
C11_RGBA8RoundTrip ==
    /\ Converted("toSColor", "RGBA8") =>
          LET p == last.args.p
              c == last.res.val
          IN  /\ c.hi = p[4] * 256 + p[1] /\ c.lo = p[2] * 256 + p[3]
              /\ RGBA8fromSColor(c) = p
    /\ Converted("fromSColor", "RGBA8") =>
          LET c == last.args.c
              p == last.res.val
          IN  /\ p = <<getRed(c), getGreen(c), getBlue(c), getAlpha(c)>>
              /\ c.hi = getAlpha(c) * 256 + getRed(c)
              /\ c.lo = getGreen(c) * 256 + getBlue(c)
              /\ getAlpha(RGBA8toSColor(p)) = getAlpha(c)
              /\ getRed(RGBA8toSColor(p)) = getRed(c)
              /\ getGreen(RGBA8toSColor(p)) = getGreen(c)
              /\ getBlue(RGBA8toSColor(p)) = getBlue(c)
              /\ RGBA8toSColor(p) = c

\* RGBA8(1, 128, 255, 0).toSColor() has been called.
C11_Witness ==
    /\ Converted("toSColor", "RGBA8") /\ last.args.p = <<1, 128, 255, 0>>
    /\ last.res.val = [hi |-> 1, lo |-> 128 * 256 + 255]

\* C12: the RGB8 conversion loses the alpha and nothing else.  toSColor
\* packs an alpha of 255 with the pixel's red, green and blue; fromSColor
\* keeps the colour's red, green and blue whatever its alpha is, so that the
\* colour converted back has an alpha of 255.
C12_RGB8LosesAlphaOnly ==
    /\ Converted("toSColor", "RGB8") =>
          LET p == last.args.p
              c == last.res.val
          IN  /\ getAlpha(c) = 255
              /\ getRed(c) = p[1] /\ getGreen(c) = p[2] /\ getBlue(c) = p[3]
              /\ RGB8fromSColor(c) = p
    /\ Converted("fromSColor", "RGB8") =>
          LET c == last.args.c
              p == last.res.val
          IN  /\ p = <<getRed(c), getGreen(c), getBlue(c)>>
              /\ \A a \in Bytes :
                    RGB8fromSColor(SColor(a, getRed(c), getGreen(c), getBlue(c))) = p
              /\ getAlpha(RGB8toSColor(p)) = 255
              /\ RGB8toSColor(p) = SColor(255, getRed(c), getGreen(c), getBlue(c))

\* RGB8::fromSColor has been called on a colour of alpha 0.
C12_Witness ==
    /\ Converted("fromSColor", "RGB8") /\ getAlpha(last.args.c) = 0
    /\ last.res.val = <<128, 1, 255>>

\* The container (or array) the call `last` tells of was made on.
Self == objs[last.args.slot].arr

\* The bytes of n elements that all hold value.
Repeated(value, n) == [k \in 1..(n * Len(value)) |-> value[((k - 1) % Len(value)) + 1]]

\* C13: after fill(c) every element of an RGBA8 container is
\* RGBA8(c.red, c.green, c.blue, c.alpha) and getPixel returns c at every
\* in-bounds coordinate; every element of an RGB8 container is
\* RGB8(c.red, c.green, c.blue) and getPixel returns c with an alpha of 255;
\* whatever the buffer held before.
C13_Fill ==
    (Called("fill") /\ ~isR8(Self)) =>
       LET c == last.args.color
           v == Self.view
           value == IF isRGBA8(Self)
                    THEN <<getRed(c), getGreen(c), getBlue(c), getAlpha(c)>>
                    ELSE <<getRed(c), getGreen(c), getBlue(c)>>
           back == IF isRGBA8(Self) THEN c
                   ELSE SColor(255, getRed(c), getGreen(c), getBlue(c))
       IN  /\ \A xy \in Within(v) :
                 /\ ReadAt(heap, v, xy[1], xy[2]) = Ok(value)
                 /\ ImageGetPixel(heap, Self, xy[1], xy[2]) = Ok(back)
           /\ (v.width > 0 /\ v.height > 0) =>
                 heap[v.data.buf].bytes = Repeated(value, v.width * v.height)

\* fill(SColor(4, 1, 2, 3)) has returned on a 1 x 2 RGB8 container.
C13_Witness ==
    /\ Called("fill") /\ isRGB8(Self) /\ Self.owned # Null
    /\ ImageGetWidth(Self) = 1 /\ ImageGetHeight(Self) = 2
    /\ last.args.color = SColor(4, 1, 2, 3)
    /\ ReadAt(heap, Self.view, 0, 1) = Ok(<<1, 2, 3>>)

\* C14: fill is idempotent: once fill(c) has returned, whatever the format,
\* the dimensions and the contents before it, a second fill(c) leaves every
\* buffer as the first one left it.
C14_FillIdempotent ==
    Called("fill") => ImageFill(heap, Self, last.args.color) = <<heap, Ok("none")>>

\* fill(SColor(255, 255, 0, 0)) has returned on a 2 x 1 RGBA8 container.
C14_Witness ==
    /\ Called("fill") /\ isRGBA8(Self) /\ Self.owned # Null
    /\ ImageGetWidth(Self) = 2 /\ ImageGetHeight(Self) = 1
    /\ last.args.color = SColor(255, 255, 0, 0)
    /\ heap[Self.owned.buf].bytes = <<255, 0, 0, 255, 255, 0, 0, 255>>

\* C15: fill, getPixel and setPixel on a container whose live format is R8
\* are rejected: none of them returns to its caller as if it had succeeded.
C15_R8Rejected ==
    (/\ last.op \in {"fill", "getPixel", "setPixel"}
     /\ IsAlive(last.args.slot) /\ objs[last.args.slot].class = "Image"
     /\ isR8(Self))
       => last.res.kind # "ok"

\* C16: every view constructed, with an explicit row stride or by drop or
\* take, has a row stride of at least width * element-size, and of exactly
\* that when the stride passed is zero.
C16_StrideCoversRow ==
    /\ V.y_stride >= V.width * SizeOf(V.T)
    /\ sub.view.y_stride >= sub.view.width * SizeOf(sub.view.T)
    /\ (Called("View2d") /\ last.args.y_stride = 0) =>
          V.y_stride = last.args.width * SizeOf(V.T)

\* C20: the constructor of a view fails its assertion when the base is null
\* and the width or the height is not zero; it accepts a null base with
\* width and height zero, and a base that is not null with every width and
\* height.
C20_NullBase ==
    last.op = "View2d" =>
       /\ (last.args.base = Null /\ (last.args.width # 0 \/ last.args.height # 0))
             => last.res.kind = "assert"
       /\ (last.args.base = Null /\ last.args.width = 0 /\ last.args.height = 0)
             => /\ last.res.kind = "ok"
                /\ V.data = Null /\ V.width = 0 /\ V.height = 0
       /\ last.args.base # Null
             => /\ last.res.kind = "ok"
                /\ V.data = last.args.base
                /\ V.width = last.args.width /\ V.height = last.args.height

\* View2d<T>(nullptr, 0, 1) has failed its assertion.
C20_Witness ==
    /\ last.op = "View2d" /\ last.res.kind = "assert"
    /\ last.args.base = Null /\ last.args.width = 0 /\ last.args.height = 1

\* The arrays that own buffer b.
Owners(b) == {s \in Slots : IsAlive(s) /\ objs[s].arr.owned = Ptr(b, 0)}

\* C17: ownership is exclusive.  No buffer is owned by two arrays; a buffer
\* still allocated is owned by exactly one array and has not been released;
\* a buffer no longer allocated is owned by none and has been released once.
\* What an array owns is allocated; the source of a move owns nothing (so
\* that its destruction releases nothing, and the buffer its target owned
\* before has no owner and is released).
C17_ExclusiveOwnership ==
    /\ \A b \in DOMAIN heap :
          /\ Cardinality(Owners(b)) <= 1
          /\ heap[b].live => (Cardinality(Owners(b)) = 1 /\ heap[b].releases = 0)
          /\ ~heap[b].live => (Owners(b) = {} /\ heap[b].releases = 1)
    /\ \A s \in Slots :
          (IsAlive(s) /\ objs[s].arr.owned # Null) =>
             /\ objs[s].arr.owned.buf \in DOMAIN heap
             /\ heap[objs[s].arr.owned.buf].live
    /\ (last.op \in {"moveCtor", "moveAssign"} /\ last.args.dst # last.args.src) =>
          objs[last.args.src].arr.owned = Null

\* a = std::move(b) has released the buffer a owned and handed it b's.
C17_Witness ==
    /\ Called("moveAssign") /\ last.args = [dst |-> "a", src |-> "b"]
    /\ DOMAIN heap = {"a", "b"}
    /\ ~heap["a"].live /\ heap["a"].releases = 1
    /\ heap["b"].live /\ heap["b"].elems = 2
    /\ objs["a"].arr.owned = Ptr("b", 0) /\ objs["b"].arr.owned = Null

\* C18: at(x, y) passes its assertion exactly when x < width and y < height
\* and row(y) exactly when y < height; when the assertion fails nothing is
\* handed back.  No access to a view of height 0 passes.
C18_BoundsCheck ==
    /\ last.op \in {"at", "at="} =>
          LET self == last.args.self
              inside == last.args.x < self.width /\ last.args.y < self.height
          IN  /\ last.res.kind = IF inside THEN "ok" ELSE "assert"
              /\ ~inside => last.res.val = "none"
              /\ self.height = 0 => last.res.kind = "assert"
    /\ last.op = "row" =>
          LET self == last.args.self
              inside == last.args.y < self.height
          IN  /\ last.res.kind = IF inside THEN "ok" ELSE "assert"
              /\ inside => last.res.val = PtrAdd(self.data, last.args.y * self.y_stride)
              /\ ~inside => last.res.val = "none"
              /\ self.height = 0 => last.res.kind = "assert"

\* at(0, 0) on a view of width 1 and height 0 has failed its assertion.
C18_Witness ==
    /\ last.op = "at" /\ last.res.kind = "assert"
    /\ last.args.self.width = 1 /\ last.args.self.height = 0
    /\ last.args.self.data # Null
    /\ last.args.x = 0 /\ last.args.y = 0

\* C19: drop(left, top) is accepted exactly when left <= width and
\* top <= height, take(w, h) exactly when w <= width and h <= height.  The
\* view an accepted call hands back is no wider and no higher than its
\* parent and its width and height are not below zero; a rejected call
\* fails the assertion and hands back no view.
C19_DropTakeAccepted ==
    /\ last.op = "drop" =>
          LET self == last.args.self
              accepted == last.args.left <= self.width /\ last.args.top <= self.height
          IN  /\ last.res.kind = IF accepted THEN "ok" ELSE "assert"
              /\ accepted => /\ sub.view.width \in 0..self.width
                             /\ sub.view.height \in 0..self.height
              /\ ~accepted => sub = NoSub
    /\ last.op = "take" =>
          LET self == last.args.self
              accepted == last.args.width <= self.width /\ last.args.height <= self.height
          IN  /\ last.res.kind = IF accepted THEN "ok" ELSE "assert"
              /\ accepted => /\ sub.view.width \in 0..self.width
                             /\ sub.view.height \in 0..self.height
              /\ ~accepted => sub = NoSub

\* drop(0, 3) of a 2 x 2 view, one row too far, has been rejected.
C19_Witness ==
    /\ last.op = "drop" /\ last.res.kind = "assert"
    /\ last.args.self.width = 2 /\ last.args.self.height = 2
    /\ last.args.left = 0 /\ last.args.top = 3

\* The step is a call on container s that returns to its caller.
ReturnsOn(s) ==
    /\ IsAlive(s) /\ objs[s].class = "Image"
    /\ last'.op # "idle" /\ last'.res.kind \notin {"assert", "UB"}

\* C21: a container the factory of any format returns for (width, height)
\* reports getWidth() = width and getHeight() = height, and no fill,
\* setPixel, getPixel, write through a typed view or drop / take / slice of
\* its view changes what it reports.
C21_DimensionsKept ==
    [][/\ last'.op = "create" =>
             /\ last'.res.kind = "ok"
             /\ ImageGetWidth(objs'[last'.args.slot].arr) = last'.args.width
             /\ ImageGetHeight(objs'[last'.args.slot].arr) = last'.args.height
       /\ \A s \in Slots :
             ReturnsOn(s) =>
                /\ ImageGetWidth(objs'[s].arr) = ImageGetWidth(objs[s].arr)
                /\ ImageGetHeight(objs'[s].arr) = ImageGetHeight(objs[s].arr)
       /\ last'.op = "getSize" =>
             last'.res.val = <<ImageGetWidth(objs[last'.args.slot].arr),
                               ImageGetHeight(objs[last'.args.slot].arr)>>
      ]_vars

\* A 2 x 1 RGB8 container reports 2 and 1 after both its pixels were set.
C21_Witness ==
    /\ Called("getSize") /\ last.res.val = <<2, 1>>
    /\ isRGB8(Self) /\ Self.owned = Ptr("a", 0)
    /\ heap["a"].bytes = <<1, 2, 3, 1, 2, 3>>

\* The step is the call op on a container whose live format has colour
\* channels, at the in-bounds coordinate the call passes.
PixelStep(op) ==
    /\ last'.op = op
    /\ IsAlive(last'.args.slot) /\ objs[last'.args.slot].class = "Image"
    /\ ~isR8(objs[last'.args.slot].arr)
    /\ last'.args.x < ImageGetWidth(objs[last'.args.slot].arr)
    /\ last'.args.y < ImageGetHeight(objs[last'.args.slot].arr)

\* C22: after setPixel(x, y, c) at an in-bounds (x, y), getPixel(x, y)
\* returns c on an RGBA8 container and c with an alpha of 255 on an RGB8
\* container, and every pixel other than (x, y) is as it was; getPixel
\* returns the colour of the stored pixel and changes no pixel.
C22_SetThenGet ==
    [][/\ PixelStep("setPixel") =>
             LET arr == objs[last'.args.slot].arr
                 x == last'.args.x
                 y == last'.args.y
                 c == last'.args.color
                 back == IF isRGBA8(arr) THEN c
                         ELSE SColor(255, getRed(c), getGreen(c), getBlue(c))
             IN  /\ last'.res.kind = "ok"
                 /\ objs' = objs
                 /\ ImageGetPixel(heap', arr, x, y) = Ok(back)
                 /\ \A xy \in Within(arr.view) \ {<<x, y>>} :
                       /\ ReadAt(heap', arr.view, xy[1], xy[2])
                             = ReadAt(heap, arr.view, xy[1], xy[2])
                       /\ ImageGetPixel(heap', arr, xy[1], xy[2])
                             = ImageGetPixel(heap, arr, xy[1], xy[2])
       /\ PixelStep("getPixel") =>
             LET arr == objs[last'.args.slot].arr
                 p == ReadAt(heap, arr.view, last'.args.x, last'.args.y).val
             IN  /\ last'.res.kind = "ok"
                 /\ objs' = objs /\ heap' = heap
                 /\ getRed(last'.res.val) = p[1]
                 /\ getGreen(last'.res.val) = p[2]
                 /\ getBlue(last'.res.val) = p[3]
                 /\ getAlpha(last'.res.val) = IF isRGBA8(arr) THEN p[4] ELSE 255
      ]_vars

\* setPixel(1, 0, SColor(4, 1, 2, 3)) has returned on a 2 x 1 RGBA8
\* container whose other pixel is as the allocator left it.
C22_Witness ==
    /\ Called("setPixel") /\ isRGBA8(Self) /\ Self.owned = Ptr("a", 0)
    /\ last.args.x = 1 /\ last.args.y = 0 /\ last.args.color = SColor(4, 1, 2, 3)
    /\ heap["a"].bytes = <<170, 170, 170, 170, 1, 2, 3, 4>>
    /\ ImageGetPixel(heap, Self, 1, 0) = Ok(SColor(4, 1, 2, 3))

\* The step is the call op on a container whose live format is R8.
R8Step(op) ==
    /\ last'.op = op
    /\ IsAlive(last'.args.slot) /\ objs[last'.args.slot].class = "Image"
    /\ isR8(objs[last'.args.slot].arr)

\* C23: on a container whose live format is R8, fill(c) and
\* setPixel(x, y, c) return having changed no element of any buffer,
\* whatever c is, and getPixel(x, y) returns the packed colour (0, 0, 0, 0)
\* whatever the element at (x, y) holds.
C23_R8NoOp ==
    [][/\ (R8Step("fill") \/ R8Step("setPixel")) =>
             /\ last'.res = Ok("none")
             /\ heap' = heap /\ objs' = objs
       /\ R8Step("getPixel") =>
             /\ last'.res.kind = "ok"
             /\ last'.res.val = [hi |-> 0, lo |-> 0]
             /\ heap' = heap /\ objs' = objs
      ]_vars

\* getPixel(0, 0) has returned (0, 0, 0, 0) on a 1 x 1 R8 container whose
\* pixel holds 9.
C23_Witness ==
    /\ Called("getPixel") /\ isR8(Self) /\ Self.owned = Ptr("a", 0)
    /\ last.args.x = 0 /\ last.args.y = 0
    /\ heap["a"].bytes = <<9>>
    /\ last.res.val = SColor(0, 0, 0, 0)

\* C24: whatever the live format of the container is, RGBA8, RGB8 or R8,
\* getPixel(x, y) and setPixel(x, y, c) with x >= width or y >= height fail
\* the bounds check: neither returns a colour or completes.
C24_OutOfBoundsRejected ==
    [][(/\ last'.op \in {"getPixel", "setPixel"}
        /\ IsAlive(last'.args.slot) /\ objs[last'.args.slot].class = "Image"
        /\ \/ last'.args.x >= ImageGetWidth(objs[last'.args.slot].arr)
           \/ last'.args.y >= ImageGetHeight(objs[last'.args.slot].arr))
       => last'.res.kind = "assert"
      ]_vars

\* The byte offset of element (x, y) of view v in its buffer.
OffsetOf(v, x, y) == v.data.off + y * v.y_stride + x * SizeOf(v.T)

\* C25: for every view, tightly packed or a padded sub-view, and every
\* in-bounds (x, y), at(x, y) is the element at byte offset
\* y * stride + x * element-size from the view's base and row(y)[x] is the
\* same element: what is written through one is read back through the
\* other.
C25_AtAndRowAgree ==
    /\ \A xy \in Within(sub.view) :
          /\ AtPtr(sub.view, xy[1], xy[2])
                = Ptr(sub.view.data.buf, OffsetOf(sub.view, xy[1], xy[2]))
          /\ PtrAdd(RowPtr(sub.view, xy[2]), xy[1] * SizeOf(sub.view.T))
                = AtPtr(sub.view, xy[1], xy[2])
    /\ Called("at=") =>
          /\ ReadRow(heap, last.args.self, last.args.x, last.args.y)
                = Ok(PixelOf(last.args.self.T))
          /\ Load(heap, Ptr(last.args.self.data.buf,
                            OffsetOf(last.args.self, last.args.x, last.args.y)),
                  SizeOf(last.args.self.T)) = PixelOf(last.args.self.T)
    /\ (Called("row[]=") /\ last.args.x < last.args.self.width) =>
          /\ ReadAt(heap, last.args.self, last.args.x, last.args.y)
                = Ok(PixelOf(last.args.self.T))
          /\ Load(heap, Ptr(last.args.self.data.buf,
                            OffsetOf(last.args.self, last.args.x, last.args.y)),
                  SizeOf(last.args.self.T)) = PixelOf(last.args.self.T)
    /\ (Called("row[]") /\ last.args.x < last.args.self.width) =>
          last.res = ReadAt(heap, last.args.self, last.args.x, last.args.y)
    /\ Called("at") =>
          last.res = ReadRow(heap, last.args.self, last.args.x, last.args.y)

\* row(1)[0] of the 1 x 2 left column of a 2 x 2 view has been written, and
\* at(0, 1) reads the value back.
C25_Witness ==
    /\ Called("row[]=") /\ last.args.x = 0 /\ last.args.y = 1
    /\ last.args.self.width = 1 /\ last.args.self.height = 2
    /\ last.args.self.y_stride = 2 * SizeOf(last.args.self.T)
    /\ ReadAt(heap, last.args.self, 0, 1) = Ok(PixelOf(last.args.self.T))
    /\ ReadAt(heap, V, 1, 0) # Ok(PixelOf(V.T))

\* C26: whatever 32-bit width and height it is given, Array2d(width, height)
\* allocates exactly width * height elements, so that every (x, y) with
\* x < width and y < height, which passes the bounds check of its view,
\* addresses an element inside the buffer, and no access that passes the
\* check leaves it.
C26_BufferCoversView ==
    /\ \A s \in Slots :
          (IsAlive(s) /\ objs[s].arr.owned = Ptr(s, 0)) =>
             LET v == objs[s].arr.view
                 n == heap[s].elems
             IN  /\ (v.width = 0 \/ v.height = 0) => n = 0
                 /\ v.width > 0 => (n % v.width = 0 /\ n \div v.width = v.height)
                 /\ \A x \in Columns(v.width), y \in Rows(v.height) :
                       AtOk(v, x, y) => Inside(heap, AtPtr(v, x, y), SizeOf(v.T))
    /\ last.op \in {"at", "at="} => last.res.kind # "UB"

\* The views the client holds that point into the array's buffer.
Held == {v \in {V, sub.view} : v.data # Null}

\* C27: every view obtained from an owning array's view by valid drop, take
\* and slice calls has a row stride of the array's width * element-size,
\* every element that passes its bounds check lies inside the array's
\* buffer, and its base is no further from the buffer's start than the
\* buffer's size, empty results such as drop(width, height) included.
C27_DerivedViewsContained ==
    \A v \in Held :
       /\ v.data.buf = "a" /\ IsAlive("a")
       /\ v.y_stride = Array2dGetWidth(objs["a"].arr) * SizeOf(objs["a"].arr.T)
       /\ \A xy \in Within(v) : Inside(heap, AtPtr(v, xy[1], xy[2]), SizeOf(v.T))
       /\ v.data.off <= Len(heap["a"].bytes)

\* The view of the array the client's views derive from.
Root == objs["a"].arr.view

\* C28: slicing composes.  With every argument valid at its step,
\* V.drop(a, b).drop(c, d) is V.drop(a + c, b + d), V.take(w, h).take(w2, h2)
\* is V.take(w2, h2), and V.drop(x, y).take(w, h) is
\* V.take(x + w, y + h).drop(x, y): the same base, width, height and stride.
C28_SlicingComposes ==
    /\ Called("drop") =>
          LET self == last.args.self
              a == last.args.left
              b == last.args.top
          IN  /\ \A c \in 0..sub.view.width, d \in 0..sub.view.height :
                    /\ DropOk(sub.view, c, d) /\ DropOk(self, a + c, b + d)
                    /\ Drop(sub.view, c, d) = Drop(self, a + c, b + d)
              /\ \A w \in 0..sub.view.width, h \in 0..sub.view.height :
                    /\ TakeOk(sub.view, w, h) /\ TakeOk(self, a + w, b + h)
                    /\ DropOk(Take(self, a + w, b + h), a, b)
                    /\ Take(sub.view, w, h) = Drop(Take(self, a + w, b + h), a, b)
              /\ \A x \in 0..Root.width, y \in 0..Root.height :
                    (IsAlive("a") /\ self = Drop(Root, x, y)) =>
                       sub.view = Drop(Root, x + a, y + b)
    /\ Called("take") =>
          LET self == last.args.self
          IN  /\ \A w2 \in 0..sub.view.width, h2 \in 0..sub.view.height :
                    /\ TakeOk(sub.view, w2, h2) /\ TakeOk(self, w2, h2)
                    /\ Take(sub.view, w2, h2) = Take(self, w2, h2)
              /\ \A w \in 0..Root.width, h \in 0..Root.height :
                    (IsAlive("a") /\ self = Take(Root, w, h)) =>
                       sub.view = Take(Root, last.args.width, last.args.height)
              /\ \A x \in 0..Root.width, y \in 0..Root.height :
                    (IsAlive("a") /\ self = Drop(Root, x, y)) =>
                       sub.view = Drop(Take(Root, x + last.args.width,
                                            y + last.args.height), x, y)
    /\ Called("slice") =>
          sub.view = Drop(Take(last.args.self, last.args.x + last.args.width,
                               last.args.y + last.args.height),
                          last.args.x, last.args.y)

\* take(1, 1) of what drop(1, 0) left of a 2 x 2 array's view: the element
\* (1, 0) of the array, as take(2, 1) then drop(1, 0) gives it.
C28_Witness ==
    /\ Called("take") /\ last.args.width = 1 /\ last.args.height = 1
    /\ IsAlive("a") /\ Root.width = 2 /\ Root.height = 2
    /\ last.args.self = Drop(Root, 1, 0)
    /\ sub.view = Drop(Take(Root, 2, 1), 1, 0)
    /\ sub.view.data.off = SizeOf(Root.T) /\ sub.view.y_stride = 2 * SizeOf(Root.T)

\* C29: drop, take and slice have no effect on what exists: the view they
\* are called on keeps its base, width, height and stride, no buffer and no
\* array changes, and what they hand back is a function of the view and the
\* arguments alone.
C29_SlicingIsPure ==
    [][(last'.op \in {"drop", "take", "slice"} /\ last'.res.kind = "ok") =>
          /\ last'.args.self = V
          /\ V' = V
          /\ heap' = heap /\ objs' = objs /\ writes' = writes /\ pc' = pc
          /\ sub'.view =
                CASE last'.op = "drop" -> Drop(V, last'.args.left, last'.args.top)
                  [] last'.op = "take" -> Take(V, last'.args.width, last'.args.height)
                  [] last'.op = "slice" ->
                        Slice(V, last'.args.x, last'.args.y,
                              last'.args.width, last'.args.height)
      ]_vars

\* drop(1, 0) has handed back the right column of a 2 x 1 view, which is
\* still 2 x 1.
C29_Witness ==
    /\ Called("drop") /\ last.args.left = 1 /\ last.args.top = 0
    /\ V = last.args.self /\ V.width = 2 /\ V.height = 1
    /\ sub.view.width = 1 /\ sub.view.data # V.data

\* The heap after a writer's whole fill, and after the whole fills of
\* writer i and then of writer j.
Filled(h, w) == FillFrom(h, w.view, w.value, 0, 0)[1]
OneThenOther(h, i, j) == Filled(Filled(h, pc[i]), pc[j])

\* C30: two writers fill, element by element, disjoint sub-views of one
\* array.  However their stores interleave, the buffer ends as the two fills
\* run one after the other leave it, in either order, and no store through
\* one sub-view changes an element that can be addressed through the other.
C30_DisjointFillsCommute ==
    [][/\ OneThenOther(heap, 1, 2) = OneThenOther(heap, 2, 1)
       /\ OneThenOther(heap', 1, 2) = OneThenOther(heap, 1, 2)
       /\ \A i \in Writers, j \in Writers :
             (i # j /\ pc'[i] # pc[i]) =>
                /\ pc'[j] = pc[j]
                /\ \A xy \in Within(pc[j].view) :
                      ReadAt(heap', pc[j].view, xy[1], xy[2])
                         = ReadAt(heap, pc[j].view, xy[1], xy[2])
       /\ (\A i \in Writers : Done(pc'[i])) =>
             /\ heap' = OneThenOther(heap', 1, 2)
             /\ \A i \in Writers : \A xy \in Within(pc'[i].view) :
                   ReadAt(heap', pc'[i].view, xy[1], xy[2]) = Ok(pc'[i].value)
      ]_vars

\* The writers of the two columns of a 2 x 2 array have each stored the
\* upper element of their column and not yet the lower one.
C30_Witness ==
    /\ DOMAIN pc = Writers
    /\ pc[1].view = Slice(V, 0, 0, 1, 2) /\ pc[2].view = Slice(V, 1, 0, 1, 2)
    /\ pc[1].y = 1 /\ pc[2].y = 1
    /\ ReadAt(heap, V, 0, 0) = Ok(pc[1].value) /\ ReadAt(heap, V, 1, 0) = Ok(pc[2].value)
    /\ ReadAt(heap, V, 0, 1) # Ok(pc[1].value) /\ ReadAt(heap, V, 1, 1) # Ok(pc[2].value)

====
